---------------------------- MODULE Spec2Model ----------------------------
(***************************************************************************)
(* Model of the RAG endpoint of rag/views.py (fixture deployment: data     *)
(* generated into rag/ecommerce_data.json) and rag/copy.py (live           *)
(* deployment: data read from PostgreSQL).                                 *)
(*                                                                         *)
(* The program state is the module global rag_chain, the snapshot file,    *)
(* and, for every request being served by a worker thread, the position of *)
(* that thread in rag_view and in the functions it calls, together with    *)
(* its local variables.  Requests run in parallel (one thread each) and    *)
(* share rag_chain and the file without any lock: every read and every     *)
(* write of rag_chain or of the file is its own step.                      *)
(*                                                                         *)
(* Spec follows the requests.  In Spec a generated data set and a built    *)
(* index are single values; what is inside them is followed by two further *)
(* specifications: GenSpec runs generate_sample_ecommerce_data record by   *)
(* record, and PipeSpec turns the records of one snapshot or database into *)
(* documents and runs one query over them.                                 *)
(***************************************************************************)
EXTENDS Integers, Sequences, FiniteSets, TLC

\* ------------------------------------------------------------------ bounds
\* Number of requests the server accepts in a behaviour.
MaxReq == 2

\* The pool of worker threads.  Two workers serve requests in parallel: every
\* race of the code is a race between two requests.
Threads == {1, 2}

\* --------------------------------------------------------- program values
\* retriever search_kwargs {"k": ...}
K_FIXTURE == 8
K_LIVE == 5

\* The snapshot file rag/ecommerce_data.json holds either nothing (absent), an
\* incomplete JSON text (opened for writing and truncated, json.dump not yet
\* finished), or one complete generated data set, named by its number.
ABSENT == -1
PARTIAL == -2
\* The data set of a snapshot left by an earlier run of the process.
OldData == 0
\* The rows the relational store holds (live deployment).
LiveData == 0
\* A load that returned [] (no documents).
NoDocs == -1
\* Every request generates at most two data sets (lazy initialization with an
\* absent snapshot, then refresh).
DataSets == 0..(2 * MaxReq)

\* Python None for rag_chain / the value setup_rag_chain returns on failure.
\* A chain (the "index") is identified by the data set it was built from, its
\* retrieval k, and the request and call (initialize_rag / refresh_rag_data)
\* that built it.
None == [ver |-> NoDocs, k |-> 0, req |-> 0, by |-> "none"]

Chain(v, kk, r, c) == [ver |-> v, k |-> kk, req |-> r, by |-> c]

\* Python None for response / error.
NoMsg == [text |-> "None", cause |-> ""]

Msg(t, c) == [text |-> t, cause |-> c]

\* Query strings, as sequences of characters.
Queries ==
    { <<>>, <<" ", " ", " ">>, <<" ", "t", "e", "s", "t", " ">> }

\* str.strip(): drop leading and trailing whitespace.
RECURSIVE LStrip(_)
LStrip(s) == IF s = <<>> THEN s
             ELSE IF Head(s) = " " THEN LStrip(Tail(s)) ELSE s

RECURSIVE RStrip(_)
RStrip(s) == IF s = <<>> THEN s
             ELSE IF s[Len(s)] = " " THEN RStrip(SubSeq(s, 1, Len(s) - 1)) ELSE s

Strip(s) == RStrip(LStrip(s))


\* ------------------------------------------------------------------ state
VARIABLES
    variant,      \* which deployment of the view runs: "fixture" (views.py) or "live" (copy.py)
    rag_chain,    \* the module global rag_chain
    file,         \* content of rag/ecommerce_data.json
    th,           \* per worker thread: position in the code and local variables
    reqCount,     \* requests accepted so far
    nextData,     \* number of the next data set generate_sample_ecommerce_data produces
    lastOK,       \* history: data set of the last refresh that returned True, {} once a new refresh begins
    buildFailed,  \* history: some initialization or refresh has failed
    gen,          \* one run of generate_sample_ecommerce_data, followed record by record
    pipe          \* one query over the documents made from one snapshot or database

\* The variables of the request-serving view, and those of the data pipeline.
view == <<variant, rag_chain, file, th, reqCount, nextData, lastOK, buildFailed>>
aux == <<gen, pipe>>
vars == <<view, aux>>

\* The locals of a thread that serves no request.
Idle ==
    [ pc       |-> "idle",
      req      |-> 0,          \* number of the request being served
      method   |-> "GET",      \* request.method
      action   |-> "none",     \* request.POST.get('action', 'query')
      query    |-> <<>>,       \* request.POST.get('query', '')
      caller   |-> "none",     \* who called setup_rag_chain: "init" or "refresh"
      gen_from |-> "none",     \* who called generate_sample_ecommerce_data: "load" or "refresh"
      data     |-> NoDocs,     \* the data set this thread generated last
      overlap  |-> FALSE,      \* another thread had the file open for writing while this one wrote
      docs     |-> NoDocs,     \* docs in setup_rag_chain: the data set loaded, or NoDocs for []
      built    |-> None,       \* what setup_rag_chain returns
      ret      |-> FALSE,      \* what refresh_rag_data returned
      response |-> NoMsg,
      error    |-> NoMsg,
      stats    |-> ABSENT,     \* data set the stats were read from, ABSENT for {}
      seen     |-> None,       \* history: rag_chain as read by "if query and rag_chain"
      used     |-> None,       \* history: rag_chain as read by "rag_chain.invoke"
      invoked  |-> FALSE,      \* history: rag_chain.invoke(...) was evaluated
      checked  |-> FALSE,      \* history: the query branch tested "query and rag_chain"
      initSaw  |-> FALSE ]     \* history: "rag_chain is None" held at line 348 / 229

Init ==
    /\ variant \in {"fixture", "live"}
    /\ rag_chain = None
    /\ file \in (IF variant = "fixture" THEN {ABSENT, OldData} ELSE {ABSENT})
    /\ th = [t \in Threads |-> Idle]
    /\ reqCount = 0
    /\ nextData = 1
    /\ lastOK = {}
    /\ buildFailed = FALSE
    /\ gen = [pc |-> "off"]
    /\ pipe = [pc |-> "off"]

\* ------------------------------------------------------------ user-facing text
ErrInit == Msg("Failed to initialize the RAG system. Please check the logs.", "")

OkRefresh(v) ==
    IF v = "fixture"
    THEN Msg("Successfully generated new sample data and refreshed the system!", "")
    ELSE Msg("Data refreshed successfully from database!", "")

ErrRefresh(v) ==
    IF v = "fixture"
    THEN Msg("Failed to refresh data. Please check the logs.", "")
    ELSE Msg("Failed to refresh data from database.", "")

\* The else branch of "if query and rag_chain".
ErrInvalidQuery(v) ==
    IF v = "fixture"
    THEN Msg("Please enter a valid query.", "")
    ELSE Msg("Please enter a query and ensure the system is properly initialized.", "")

\* The except branch around rag_chain.invoke: the text carries str(e).
ErrQuery(v, cause) ==
    IF v = "fixture"
    THEN Msg("An error occurred while processing your query: ", cause)
    ELSE Msg("An error occurred: ", cause)

Answer == Msg("result['answer']", "")

\* ------------------------------------------------------------ control flow
RetrievalK(v) == IF v = "fixture" THEN K_FIXTURE ELSE K_LIVE

\* Where rag_view continues after the action branch: the stats block exists
\* in views.py only; copy.py renders at once.
AfterAction(v) == IF v = "fixture" THEN "stats" ELSE "done"

\* Where setup_rag_chain returns to.
ReturnTo(caller) == IF caller = "init" THEN "init_assign" ELSE "refresh_assign"

\* Mutant: refresh_rag_data without its try/except, as in copy.py.
Handler_NoTryInRefresh(site, from) ==
    CASE site = "generate" /\ from = "load"    -> "load_except"
      [] site = "read"                         -> "load_except"
      [] site = "db"                           -> "load_except"
      [] site = "build"                        -> "setup_except"
      [] site = "invoke"                       -> "query_except"
      [] site = "stats"                        -> "stats_except"
      [] OTHER                                 -> "uncaught"

\* The except clause that catches an exception raised at a site, "uncaught"
\* when no enclosing try catches it.
Handler(site, from) ==
    CASE site = "generate" /\ from = "load"    -> "load_except"
      [] site = "generate" /\ from = "refresh" -> "refresh_except"
      [] site = "read"                         -> "load_except"
      [] site = "db"                           -> "load_except"
      [] site = "build"                        -> "setup_except"
      [] site = "invoke"                       -> "query_except"
      [] site = "stats"                        -> "stats_except"
      [] OTHER                                 -> "uncaught"

\* The locals of thread record r after an exception with text cause, raised at
\* site, has been handled (or has left rag_view uncaught).  The locals of a
\* function that has returned are gone (reset to their idle values).
Raised(r, site, cause) ==
    LET h  == Handler(site, r.gen_from)
        r1 == [r EXCEPT !.gen_from = "none"]
    IN CASE h = "load_except" ->
              [r1 EXCEPT !.docs = NoDocs, !.pc = "setup_check"]
         [] h = "refresh_except" ->
              [r1 EXCEPT !.ret = FALSE, !.pc = "refresh_result"]
         [] h = "setup_except" ->
              [r1 EXCEPT !.built = None, !.docs = NoDocs, !.pc = ReturnTo(r.caller)]
         [] h = "query_except" ->
              [r1 EXCEPT !.error = ErrQuery(variant, cause), !.pc = AfterAction(variant)]
         [] h = "stats_except" ->
              [r1 EXCEPT !.stats = ABSENT, !.pc = "done"]
         [] OTHER ->
              [r1 EXCEPT !.pc = "crashed"]

\* ---------------------------------------------------------------- rag_view
\* A request arrives and a worker thread starts rag_view on it.  The threads
\* are interchangeable: the free thread with the least number takes it.  The
\* requests are those the form sends: GET, POST action=refresh, and POST
\* action=query with a query text.
rag_view_Enter(t) ==
    /\ th[t].pc = "idle"
    /\ UNCHANGED aux
    /\ \A u \in Threads : u < t => th[u].pc # "idle"
    /\ reqCount < MaxReq
    /\ \E m \in {"GET", "POST"}, a \in {"query", "refresh"}, qs \in Queries :
          /\ m = "GET" => (a = "query" /\ qs = <<>>)
          /\ a = "refresh" => qs = <<>>
          /\ th' = [th EXCEPT ![t] =
                      [Idle EXCEPT !.pc = "check_init", !.req = reqCount + 1,
                                   !.method = m,
                                   !.action = IF m = "GET" THEN "none" ELSE a,
                                   !.query = qs]]
    /\ reqCount' = reqCount + 1
    /\ UNCHANGED <<variant, rag_chain, file, nextData, lastOK, buildFailed>>

\* Mutant: the view rebuilds on every request.
NeedsInit_Always(rc) == TRUE

\* "if rag_chain is None:"
NeedsInit(rc) == rc = None

\* Lazy initialization: rag_view tests the global and calls initialize_rag,
\* which calls setup_rag_chain.
rag_view_CheckInit(t) ==
    /\ th[t].pc = "check_init"
    /\ UNCHANGED aux
    /\ th' = [th EXCEPT ![t] =
                IF NeedsInit(rag_chain)
                THEN [@ EXCEPT !.pc = "load", !.caller = "init", !.initSaw = TRUE]
                ELSE [@ EXCEPT !.pc = "dispatch"]]
    /\ UNCHANGED <<variant, rag_chain, file, reqCount, nextData, lastOK, buildFailed>>

\* ------------------------------------------ load_ecommerce_data_from_json
\* "if not os.path.exists('rag/ecommerce_data.json'): generate_sample_ecommerce_data()"
load_ecommerce_data_from_json_Exists(t) ==
    /\ th[t].pc = "load"
    /\ UNCHANGED aux
    /\ variant = "fixture"
    /\ th' = [th EXCEPT ![t] =
                IF file = ABSENT
                THEN [@ EXCEPT !.pc = "gen_open", !.gen_from = "load"]
                ELSE [@ EXCEPT !.pc = "load_read"]]
    /\ UNCHANGED <<variant, rag_chain, file, reqCount, nextData, lastOK, buildFailed>>

\* "with open(...,'r') as f: data = json.load(f)" and the synthesis of the
\* documents: a complete snapshot gives the documents of its data set; an
\* incomplete one makes json.load raise, and the function returns [].
load_ecommerce_data_from_json_Read(t) ==
    /\ th[t].pc = "load_read"
    /\ UNCHANGED aux
    /\ th' = [th EXCEPT ![t] =
                IF file \in DataSets
                THEN [@ EXCEPT !.docs = file, !.pc = "setup_check"]
                ELSE Raised(@, "read", "JSONDecodeError")]
    /\ UNCHANGED <<variant, rag_chain, file, reqCount, nextData, lastOK, buildFailed>>

\* copy.py load_ecommerce_data: the four queries give rows, or no row at all,
\* or the connection or a query raises and the function returns [].
load_ecommerce_data(t) ==
    /\ th[t].pc = "load"
    /\ UNCHANGED aux
    /\ variant = "live"
    /\ \E outcome \in {"rows", "empty", "error"} :
          th' = [th EXCEPT ![t] =
                   CASE outcome = "rows"  -> [@ EXCEPT !.docs = LiveData, !.pc = "setup_check"]
                     [] outcome = "empty" -> [@ EXCEPT !.docs = NoDocs, !.pc = "setup_check"]
                     [] OTHER             -> Raised(@, "db", "OperationalError")]
    /\ UNCHANGED <<variant, rag_chain, file, reqCount, nextData, lastOK, buildFailed>>

\* -------------------------------------- generate_sample_ecommerce_data
\* The data set is built in memory, then "open('rag/ecommerce_data.json', 'w')"
\* truncates the file; open can raise (OSError).
generate_sample_ecommerce_data_Open(t) ==
    /\ th[t].pc = "gen_open"
    /\ UNCHANGED aux
    /\ \E ok \in BOOLEAN :
          IF ok
          THEN /\ file' = PARTIAL
               /\ nextData' = nextData + 1
               /\ LET writers == {u \in Threads \ {t} : th[u].pc = "gen_dump"}
                  IN th' = [u \in Threads |->
                              IF u = t
                              THEN [th[u] EXCEPT !.data = nextData, !.pc = "gen_dump",
                                                 !.overlap = writers # {}]
                              ELSE IF u \in writers
                                   THEN [th[u] EXCEPT !.overlap = TRUE]
                                   ELSE th[u]]
               /\ UNCHANGED buildFailed
          ELSE /\ th' = [th EXCEPT ![t] = Raised(@, "generate", "OSError")]
               /\ buildFailed' = (buildFailed \/ th[t].gen_from = "refresh")
               /\ UNCHANGED <<file, nextData>>
    /\ UNCHANGED <<variant, rag_chain, reqCount, lastOK>>

\* "json.dump(ecommerce_data, f, indent=2)" and the close of the file.  When a
\* second writer had the file open between this thread's open and its close,
\* the bytes of the two interleave: the file then holds this thread's data set
\* or no complete JSON text.
generate_sample_ecommerce_data_Dump(t) ==
    /\ th[t].pc = "gen_dump"
    /\ UNCHANGED aux
    /\ \E content \in {th[t].data, PARTIAL} :
          /\ content = PARTIAL => th[t].overlap
          /\ file' = content
    /\ th' = [th EXCEPT ![t] =
                IF th[t].gen_from = "load"
                THEN [@ EXCEPT !.pc = "load_read", !.gen_from = "none", !.data = NoDocs,
                               !.overlap = FALSE]
                ELSE [@ EXCEPT !.pc = "load", !.caller = "refresh", !.gen_from = "none",
                               !.overlap = FALSE]]
    /\ UNCHANGED <<variant, rag_chain, reqCount, nextData, lastOK, buildFailed>>

\* --------------------------------------------------------- setup_rag_chain
\* "if not docs: return None"
setup_rag_chain_CheckDocs(t) ==
    /\ th[t].pc = "setup_check"
    /\ UNCHANGED aux
    /\ th' = [th EXCEPT ![t] =
                IF th[t].docs = NoDocs
                THEN [@ EXCEPT !.built = None, !.pc = ReturnTo(th[t].caller)]
                ELSE [@ EXCEPT !.pc = "setup_build"]]
    /\ UNCHANGED <<variant, rag_chain, file, reqCount, nextData, lastOK, buildFailed>>

\* Embeddings, FAISS.from_documents, the LLM client and the chains: the
\* collaborators return a chain over docs, or raise and None is returned.
setup_rag_chain_Build(t) ==
    /\ th[t].pc = "setup_build"
    /\ UNCHANGED aux
    /\ \E ok \in BOOLEAN :
          th' = [th EXCEPT ![t] =
                   IF ok
                   THEN [@ EXCEPT !.built = Chain(th[t].docs, RetrievalK(variant),
                                                  th[t].req, th[t].caller),
                                  !.docs = NoDocs,
                                  !.pc = ReturnTo(th[t].caller)]
                   ELSE Raised(@, "build", "IndexBuildFailed")]
    /\ UNCHANGED <<variant, rag_chain, file, reqCount, nextData, lastOK, buildFailed>>

\* ---------------------------------------------------------- initialize_rag
\* "rag_chain = setup_rag_chain()".  copy.py's initialize_rag returns nothing.
initialize_rag_Assign(t) ==
    /\ th[t].pc = "init_assign"
    /\ UNCHANGED aux
    /\ rag_chain' = th[t].built
    /\ buildFailed' = (buildFailed \/ th[t].built = None)
    /\ th' = [th EXCEPT ![t].pc = IF variant = "fixture" THEN "init_ret" ELSE "dispatch",
                        ![t].built = None,
                        ![t].caller = "none"]
    /\ UNCHANGED <<variant, file, reqCount, nextData, lastOK>>

\* "return rag_chain is not None", a second read of the global, and in
\* rag_view "if not initialize_rag(): error = ...".
initialize_rag_Return(t) ==
    /\ th[t].pc = "init_ret"
    /\ UNCHANGED aux
    /\ LET r == rag_chain # None
       IN th' = [th EXCEPT ![t].error = IF r THEN @ ELSE ErrInit,
                           ![t].pc = "dispatch"]
    /\ UNCHANGED <<variant, rag_chain, file, reqCount, nextData, lastOK, buildFailed>>

\* ------------------------------------------------------ rag_view, continued
\* "if request.method == 'POST': action = ...; if action == 'refresh': ...
\* elif action == 'query': ...".  views.py's refresh_rag_data starts with
\* generate_sample_ecommerce_data(), copy.py's with setup_rag_chain().
rag_view_Dispatch(t) ==
    /\ th[t].pc = "dispatch"
    /\ UNCHANGED aux
    /\ th' = [th EXCEPT ![t] =
                CASE th[t].method = "GET" -> [@ EXCEPT !.pc = AfterAction(variant)]
                  [] th[t].method = "POST" /\ th[t].action = "refresh" ->
                       IF variant = "fixture"
                       THEN [@ EXCEPT !.pc = "gen_open", !.gen_from = "refresh"]
                       ELSE [@ EXCEPT !.pc = "load", !.caller = "refresh"]
                  [] OTHER -> [@ EXCEPT !.pc = "query_check"]]
    /\ lastOK' = IF th[t].method = "POST" /\ th[t].action = "refresh" THEN {} ELSE lastOK
    /\ UNCHANGED <<variant, rag_chain, file, reqCount, nextData, buildFailed>>

\* -------------------------------------------------------- refresh_rag_data
\* "rag_chain = setup_rag_chain()"
refresh_rag_data_Assign(t) ==
    /\ th[t].pc = "refresh_assign"
    /\ UNCHANGED aux
    /\ rag_chain' = th[t].built
    /\ buildFailed' = (buildFailed \/ th[t].built = None)
    /\ th' = [th EXCEPT ![t].pc = "refresh_ret"]
    /\ UNCHANGED <<variant, file, reqCount, nextData, lastOK>>

\* Mutant: the result is computed from the chain this call built.
RefreshReturnValue_OwnChain(rc, mine) == mine # None

\* "return rag_chain is not None": the global rc is read again; the chain this
\* call built is the local value mine.
RefreshReturnValue(rc, mine) == rc # None

refresh_rag_data_Return(t) ==
    /\ th[t].pc = "refresh_ret"
    /\ UNCHANGED aux
    /\ LET r == RefreshReturnValue(rag_chain, th[t].built)
       IN /\ th' = [th EXCEPT ![t].ret = r, ![t].pc = "refresh_result",
                              ![t].built = None, ![t].caller = "none",
                              ![t].data = NoDocs]
          /\ lastOK' = IF r /\ variant = "fixture" THEN {th[t].data} ELSE lastOK
    /\ UNCHANGED <<variant, rag_chain, file, reqCount, nextData, buildFailed>>

\* "if refresh_rag_data(): response = ... else: error = ..."
rag_view_RefreshResult(t) ==
    /\ th[t].pc = "refresh_result"
    /\ UNCHANGED aux
    /\ th' = [th EXCEPT ![t] =
                IF th[t].ret
                THEN [@ EXCEPT !.response = OkRefresh(variant), !.ret = FALSE,
                               !.pc = AfterAction(variant)]
                ELSE [@ EXCEPT !.error = ErrRefresh(variant), !.ret = FALSE,
                               !.pc = AfterAction(variant)]]
    /\ UNCHANGED <<variant, rag_chain, file, reqCount, nextData, lastOK, buildFailed>>

\* ------------------------------------------------------------------- query
\* views.py: "query = request.POST.get('query', '').strip()";
\* copy.py:  "query = request.POST.get('query', '')".
QueryText(v, raw) == IF v = "fixture" THEN Strip(raw) ELSE raw

\* "if query and rag_chain:" ... "else: error = ..."
rag_view_QueryCheck(t) ==
    /\ th[t].pc = "query_check"
    /\ UNCHANGED aux
    /\ LET qt == QueryText(variant, th[t].query)
       IN th' = [th EXCEPT ![t] =
                   IF qt # <<>> /\ rag_chain # None
                   THEN [@ EXCEPT !.seen = rag_chain, !.checked = TRUE,
                                  !.pc = "invoke"]
                   ELSE [@ EXCEPT !.seen = rag_chain, !.checked = TRUE,
                                  !.error = ErrInvalidQuery(variant),
                                  !.pc = AfterAction(variant)]]
    /\ UNCHANGED <<variant, rag_chain, file, reqCount, nextData, lastOK, buildFailed>>

\* Mutant: the except branch of the query drops the chain.
rag_view_Invoke_DropsChain(t) ==
    /\ th[t].pc = "invoke"
    /\ UNCHANGED aux
    /\ \E ok \in BOOLEAN :
          LET r == [th[t] EXCEPT !.used = rag_chain, !.invoked = TRUE]
          IN IF rag_chain # None /\ ok
             THEN /\ th' = [th EXCEPT ![t] =
                              [r EXCEPT !.response = Answer, !.pc = AfterAction(variant)]]
                  /\ rag_chain' = rag_chain
             ELSE /\ th' = [th EXCEPT ![t] = Raised(r, "invoke", "CollaboratorError")]
                  /\ rag_chain' = None
    /\ UNCHANGED <<variant, file, reqCount, nextData, lastOK, buildFailed>>

\* "result = rag_chain.invoke({"input": query}); response = result['answer']"
\* inside try/except: the global is read again; on None the attribute lookup
\* raises, on a chain the retrieval and the LLM call answer or raise.
rag_view_Invoke(t) ==
    /\ th[t].pc = "invoke"
    /\ UNCHANGED aux
    /\ \E ok \in BOOLEAN :
          LET r == [th[t] EXCEPT !.used = rag_chain, !.invoked = TRUE]
          IN th' = [th EXCEPT ![t] =
                      IF rag_chain = None
                      THEN Raised(r, "invoke", "AttributeError")
                      ELSE IF ok
                           THEN [r EXCEPT !.response = Answer, !.pc = AfterAction(variant)]
                           ELSE Raised(r, "invoke", "CollaboratorError")]
    /\ UNCHANGED <<variant, rag_chain, file, reqCount, nextData, lastOK, buildFailed>>

\* ------------------------------------------------------------------- stats
\* views.py only: the stats are read from the snapshot inside try/except pass.
rag_view_Stats(t) ==
    /\ th[t].pc = "stats"
    /\ UNCHANGED aux
    /\ th' = [th EXCEPT ![t] =
                CASE file \in DataSets -> [@ EXCEPT !.stats = file, !.pc = "done"]
                  [] file = ABSENT     -> [@ EXCEPT !.stats = ABSENT, !.pc = "done"]
                  [] OTHER             -> Raised(@, "stats", "JSONDecodeError")]
    /\ UNCHANGED <<variant, rag_chain, file, reqCount, nextData, lastOK, buildFailed>>

\* "return render(request, 'rag/rag.html', {...})": the request is over and
\* the thread is free for the next one.
rag_view_Render(t) ==
    /\ th[t].pc = "done"
    /\ UNCHANGED aux
    /\ th' = [th EXCEPT ![t] = Idle]
    /\ UNCHANGED <<variant, rag_chain, file, reqCount, nextData, lastOK, buildFailed>>

\* ------------------------------------------------------------ specification
\* The steps of a thread that is serving a request.
Serve(t) ==
        \/ rag_view_CheckInit(t)
        \/ load_ecommerce_data_from_json_Exists(t)
        \/ load_ecommerce_data_from_json_Read(t)
        \/ load_ecommerce_data(t)
        \/ generate_sample_ecommerce_data_Open(t)
        \/ generate_sample_ecommerce_data_Dump(t)
        \/ setup_rag_chain_CheckDocs(t)
        \/ setup_rag_chain_Build(t)
        \/ initialize_rag_Assign(t)
        \/ initialize_rag_Return(t)
        \/ rag_view_Dispatch(t)
        \/ refresh_rag_data_Assign(t)
        \/ refresh_rag_data_Return(t)
        \/ rag_view_RefreshResult(t)
        \/ rag_view_QueryCheck(t)
        \/ rag_view_Invoke(t)
        \/ rag_view_Stats(t)
        \/ rag_view_Render(t)

Next ==
    \E t \in Threads :
        \/ rag_view_Enter(t)
        \/ Serve(t)

Spec == Init /\ [][Next]_vars

\* ======================================================================
\* generate_sample_ecommerce_data (rag/views.py), followed record by record.
\* The lists are kept by their lengths; what the function puts into each
\* appended record is compared with the lists at the moment of the append and
\* the result is kept in the three *_ok fields.  Every random draw is a choice.
\* ======================================================================
PRODUCT_STOP == 1001       \* for i in range(1, 1001)
ORDER_STOP == 201          \* for order_id in range(1, 201)
REVIEW_STOP_MIN == 2       \* random.randint(2, 6)
REVIEW_STOP_MAX == 6
ITEMS_MIN == 1             \* random.randint(1, 5)
ITEMS_MAX == 5

\* len(range(a, b))
RangeLen(a, b) == IF b > a THEN b - a ELSE 0

\* Number of turns of "for review_id in range(1, stop)".
ReviewsPerProduct_FromZero(stop) == RangeLen(0, stop)
ReviewsPerProduct(stop) == RangeLen(1, stop)

\* The ids random.choice(products) can return when the list holds the ids
\* 1..n in order: products[0]["id"] up to products[-1]["id"].
ChoiceOfProduct(n) == [least |-> 1, greatest |-> n]

NoDataset == [total_products |-> -1]

GenStart ==
    [ pc          |-> "products",
      i           |-> 1,         \* loop variable of the product loop
      products    |-> 0,         \* len(products)
      reviews     |-> 0,         \* len(reviews_data)
      order_id    |-> 0,         \* loop variable of the order loop
      orders      |-> 0,         \* len(orders_data)
      ids_ok      |-> TRUE,      \* products[j]["id"] = j + 1 for every j
      reviews_ok  |-> TRUE,      \* every product so far got 1..5 reviews, each naming a listed product
      items_ok    |-> TRUE,      \* every order so far has 1..5 items, each naming a listed product
      dataset     |-> NoDataset ]

\* One turn of the product loop: the product is appended, then its reviews.
generate_Product ==
    /\ gen.pc = "products"
    /\ gen.i < PRODUCT_STOP
    /\ \E stop \in REVIEW_STOP_MIN..REVIEW_STOP_MAX :
          LET id   == gen.i
              np   == gen.products + 1
              n    == ReviewsPerProduct(stop)
              pid  == gen.i                      \* "product_id": i
          IN gen' = [gen EXCEPT
                 !.products   = np,
                 !.ids_ok     = gen.ids_ok /\ id = np,
                 !.reviews    = gen.reviews + n,
                 !.reviews_ok = /\ gen.reviews_ok
                                /\ n >= 1 /\ n <= 5
                                /\ pid >= 1 /\ pid <= np,
                 !.i          = gen.i + 1]
    /\ UNCHANGED <<view, pipe>>

\* The product loop is exhausted: orders_data = [] and the order loop starts.
generate_ProductsDone ==
    /\ gen.pc = "products"
    /\ gen.i >= PRODUCT_STOP
    /\ gen' = [gen EXCEPT !.pc = "orders", !.order_id = 1]
    /\ UNCHANGED <<view, pipe>>

\* One turn of the order loop: num_items items, each of a product drawn from
\* the list, then the order is appended.
generate_Order ==
    /\ gen.pc = "orders"
    /\ gen.order_id < ORDER_STOP
    /\ \E num_items \in ITEMS_MIN..ITEMS_MAX :
          LET n      == RangeLen(0, num_items)   \* for item_num in range(num_items)
              choice == ChoiceOfProduct(gen.products)
          IN gen' = [gen EXCEPT
                 !.orders   = gen.orders + 1,
                 !.items_ok = /\ gen.items_ok
                              /\ n >= 1 /\ n <= 5
                              /\ gen.ids_ok
                              /\ choice.least >= 1
                              /\ choice.least <= choice.greatest
                              /\ choice.greatest <= gen.products,
                 !.order_id = gen.order_id + 1]
    /\ UNCHANGED <<view, pipe>>

generate_OrdersDone ==
    /\ gen.pc = "orders"
    /\ gen.order_id >= ORDER_STOP
    /\ gen' = [gen EXCEPT !.pc = "save"]
    /\ UNCHANGED <<view, pipe>>

\* The dataset dict is assembled and dumped to the snapshot file.
generate_Save ==
    /\ gen.pc = "save"
    /\ gen' = [gen EXCEPT
           !.pc = "saved",
           !.dataset = [ products       |-> gen.products,
                         reviews        |-> gen.reviews,
                         orders         |-> gen.orders,
                         total_products |-> gen.products,
                         total_reviews  |-> gen.reviews,
                         total_orders   |-> gen.orders ]]
    /\ UNCHANGED <<view, pipe>>

GenInit ==
    /\ variant = "fixture"
    /\ rag_chain = None
    /\ file = ABSENT
    /\ th = [t \in Threads |-> Idle]
    /\ reqCount = 0
    /\ nextData = 1
    /\ lastOK = {}
    /\ buildFailed = FALSE
    /\ gen = GenStart
    /\ pipe = [pc |-> "off"]

GenNext ==
    \/ generate_Product
    \/ generate_ProductsDone
    \/ generate_Order
    \/ generate_OrdersDone
    \/ generate_Save

GenSpec == GenInit /\ [][GenNext]_vars

\* ======================================================================
\* From records to an answer: the documents load_ecommerce_data_from_json
\* (rag/views.py) and load_ecommerce_data (rag/copy.py) build, the retrieval
\* of one query over them, and what rag_view hands to the template.
\* ======================================================================
MaxRecords == 3            \* records of one category in the data drawn
ItemsPerOrder == {1, 2}

\* A snapshot file as generate_sample_ecommerce_data lays it out.
SnapshotData(np, nr, no, ipo) ==
    [ products |-> [j \in 1..np |->
          [id |-> j, name |-> "Apple Smartphone", category |-> "Electronics",
           brand |-> "Apple", price |-> 10, rating |-> 4]],
      reviews  |-> [j \in 1..nr |->
          [id |-> j, product_id |-> ((j - 1) % np) + 1,
           product_name |-> "Apple Smartphone", rating |-> 5,
           verified_purchase |-> (j % 2 = 0)]],
      orders   |-> [j \in 1..no |->
          [id |-> j, user_id |-> 1, status |-> "pending",
           items |-> [x \in 1..ipo |->
               [product_id |-> ((j + x) % np) + 1,
                product_name |-> "Apple Smartphone", quantity |-> x, price |-> 10]]]] ]

\* The rows the four queries of load_ecommerce_data return; the orders query
\* joins orders with order_items, so two rows may carry one order's id.
DatabaseRows(np, nc, nr, no) ==
    [ products   |-> [j \in 1..np |->
          [id |-> j, name |-> "Apple Smartphone", price |-> 10,
           category |-> "Electronics", brand |-> "Apple", rating |-> 4]],
      categories |-> [j \in 1..nc |->
          [id |-> j, name |-> "Electronics", parent_category |-> "None"]],
      reviews    |-> [j \in 1..nr |->
          [id |-> j, product_id |-> 1, product_name |-> "Apple Smartphone", rating |-> 5]],
      orders     |-> [j \in 1..no |->
          [id |-> (j + 1) \div 2, status |-> "pending", product_id |-> 1,
           product_name |-> "Apple Smartphone", quantity |-> j, price |-> 10]] ]

Datasets(v) ==
    IF v = "fixture"
    THEN { SnapshotData(np, nr, no, ipo) :
               np \in 1..MaxRecords, nr \in 0..MaxRecords,
               no \in 0..MaxRecords, ipo \in ItemsPerOrder }
    ELSE { DatabaseRows(np, nc, nr, no) :
               np \in 0..MaxRecords, nc \in 0..MaxRecords,
               nr \in 0..MaxRecords, no \in 0..MaxRecords }

\* Document(page_content, metadata); origin is history: the category and the
\* id of the record the document was made from.
Document(content, md, category, id) ==
    [ page_content |-> content, metadata |-> md,
      origin |-> [category |-> category, id |-> id] ]

\* views.py: one document per product, per review and per item of an order.
ProductChunk(product) ==
    Document("Product", [ source   |-> "products",
                          id       |-> product.id,
                          category |-> product.category,
                          brand    |-> product.brand,
                          price    |-> product.price,
                          rating   |-> product.rating ],
             "products", product.id)

ReviewChunk(review) ==
    Document("Product Review", [ source     |-> "reviews",
                                 product_id |-> review.product_id,
                                 rating     |-> review.rating,
                                 verified   |-> review.verified_purchase ],
             "reviews", review.id)

OrderItemChunk(order, item) ==
    Document("Recent Order Information", [ source     |-> "orders",
                                           order_id   |-> order.id,
                                           product_id |-> item.product_id,
                                           status     |-> order.status ],
             "orders", order.id)

RECURSIVE OrderChunks(_)
OrderChunks(orders) ==
    IF orders = <<>> THEN <<>>
    ELSE LET order == Head(orders)
         IN [x \in 1..Len(order.items) |-> OrderItemChunk(order, order.items[x])]
              \o OrderChunks(Tail(orders))

JsonDocuments(data) ==
    [j \in 1..Len(data.products) |-> ProductChunk(data.products[j])]
      \o [j \in 1..Len(data.reviews) |-> ReviewChunk(data.reviews[j])]
      \o OrderChunks(data.orders)

\* copy.py: {'source': table_name, 'id': row['id'], **{other columns}}; a
\* column repeated after ** replaces the entry written before it.
RowChunk(table_name, row) ==
    LET rest == DOMAIN row \ {"id"}
    IN Document(table_name,
                [k \in {"source", "id"} \cup rest |->
                    IF k \in rest THEN row[k]
                    ELSE IF k = "source" THEN table_name ELSE row["id"]],
                table_name, row["id"])

TableChunks(table_name, rows) ==
    [j \in 1..Len(rows) |-> RowChunk(table_name, rows[j])]

DatabaseDocuments(data) ==
    TableChunks("products", data.products)
      \o TableChunks("categories", data.categories)
      \o TableChunks("reviews", data.reviews)
      \o TableChunks("orders", data.orders)

\* dict.get(key, default)
Get(md, key, default) == IF key \in DOMAIN md THEN md[key] ELSE default

\* What the retriever built with search_kwargs={"k": k} returns: the k nearest
\* documents, nearest first, all of them when the index holds fewer.  Which
\* documents are near is the embedding's business: nearest is the document
\* numbered first, the others follow in index order, wrapping around.
Neighbours(docs, k, first) ==
    LET n == Len(docs)
        m == IF n < k THEN n ELSE k
    IN [i \in 1..m |-> docs[((first + i - 2) % n) + 1]]

NoResult == [answer |-> "None", context |-> <<>>]
NoPage == [nothing |-> "not rendered"]

PipeStart(data) ==
    [ pc       |-> "load",
      data     |-> data,         \* the snapshot file or the database
      docs     |-> <<>>,         \* all_documents
      result   |-> NoResult,     \* result of rag_chain.invoke
      response |-> "None",
      error    |-> "None",
      sources  |-> <<>>,         \* the local sources of rag/copy.py
      page     |-> NoPage ]      \* the context dict given to render

\* load_ecommerce_data_from_json / load_ecommerce_data: the documents, or []
\* when anything in the try block raises.
pipeline_Load ==
    /\ pipe.pc = "load"
    /\ \E ok \in BOOLEAN :
          pipe' = [pipe EXCEPT
              !.pc   = "build",
              !.docs = IF ~ok THEN <<>>
                       ELSE IF variant = "fixture" THEN JsonDocuments(pipe.data)
                       ELSE DatabaseDocuments(pipe.data)]
    /\ UNCHANGED <<view, gen>>

\* setup_rag_chain: None without documents, else an index over all of them.
pipeline_Build ==
    /\ pipe.pc = "build"
    /\ pipe' = [pipe EXCEPT !.pc = IF pipe.docs = <<>> THEN "no_chain" ELSE "invoke"]
    /\ UNCHANGED <<view, gen>>

\* rag_view, action=query with a chain: result = rag_chain.invoke(...),
\* response = result['answer'], or the except branch.
pipeline_Invoke ==
    /\ pipe.pc = "invoke"
    /\ \/ \E first \in 1..Len(pipe.docs) :
             LET result == [ answer  |-> "answer",
                             context |-> Neighbours(pipe.docs, RetrievalK(variant), first) ]
             IN pipe' = [pipe EXCEPT
                    !.result   = result,
                    !.response = result.answer,
                    !.pc       = IF variant = "live" THEN "sources" ELSE "render"]
       \/ pipe' = [pipe EXCEPT !.error = "An error occurred", !.pc = "render"]
    /\ UNCHANGED <<view, gen>>

\* rag/copy.py only: the local list sources is filled from result['context'].
pipeline_Sources ==
    /\ pipe.pc = "sources"
    /\ pipe' = [pipe EXCEPT
           !.sources = [i \in 1..Len(pipe.result.context) |->
                           [ source |-> Get(pipe.result.context[i].metadata, "source", "Unknown"),
                             id     |-> Get(pipe.result.context[i].metadata, "id", "N/A") ]],
           !.pc = "render"]
    /\ UNCHANGED <<view, gen>>

\* return render(request, 'rag/rag.html', {...})
pipeline_Render ==
    /\ pipe.pc = "render"
    /\ pipe' = [pipe EXCEPT
           !.pc   = "done",
           !.page = IF variant = "fixture"
                    THEN [ response |-> pipe.response, error |-> pipe.error,
                           stats |-> [ total_products |-> Len(pipe.data.products),
                                       total_reviews  |-> Len(pipe.data.reviews),
                                       total_orders   |-> Len(pipe.data.orders) ] ]
                    ELSE [ response |-> pipe.response, error |-> pipe.error ]]
    /\ UNCHANGED <<view, gen>>

PipeInit ==
    /\ variant \in {"fixture", "live"}
    /\ rag_chain = None
    /\ file = ABSENT
    /\ th = [t \in Threads |-> Idle]
    /\ reqCount = 0
    /\ nextData = 1
    /\ lastOK = {}
    /\ buildFailed = FALSE
    /\ gen = [pc |-> "off"]
    /\ \E data \in Datasets(variant) : pipe = PipeStart(data)

PipeNext ==
    \/ pipeline_Load
    \/ pipeline_Build
    \/ pipeline_Invoke
    \/ pipeline_Sources
    \/ pipeline_Render

PipeSpec == PipeInit /\ [][PipeNext]_vars

\* ------------------------------------------------------------------ claims
\* Thread t is inside refresh_rag_data.
RefreshInProgress(t) == th[t].gen_from = "refresh" \/ th[t].caller = "refresh"

\* Thread t has just returned from the try body of rag_chain.invoke or from
\* its except branch.
QueryServed(t) == th[t].invoked

\* Thread u serves a refresh request that found the session initialized: the
\* only assignment to rag_chain it makes is the one of refresh_rag_data.
RefreshOnly(u) ==
    th[u].pc # "idle" /\ th[u].action = "refresh" /\ ~th[u].initSaw

\* C1: a query that runs while another request refreshes, and that passed the
\* test "query and rag_chain", uses a complete chain, the very one the test
\* saw: the reference does not change between the test and the use.
C1_QueryUsesCheckedChain ==
    \A t \in Threads :
        (QueryServed(t) /\ \E u \in Threads \ {t} : RefreshOnly(u))
            => (th[t].used # None /\ th[t].used = th[t].seen)

\* C2: once a refresh has returned True and no refresh is running, the
\* snapshot (when no write of it is under way) holds the data set that refresh
\* generated and the installed chain, if any, was built from that data set
\* and no other.
C2_RefreshedChainIsFresh ==
    (/\ variant = "fixture"
     /\ lastOK # {}
     /\ file # PARTIAL
     /\ \A t \in Threads : ~RefreshInProgress(t))
        => /\ file \in lastOK
           /\ rag_chain # None => rag_chain.ver \in lastOK

\* C3: refresh_rag_data returns True exactly when the chain this call built
\* is a chain (not None) and is the one installed in rag_chain when it returns.
C3_RefreshTrueIffOwnChainInstalled ==
    [][\A t \in Threads :
          (th[t].pc # "refresh_result" /\ th'[t].pc = "refresh_result")
              => (th'[t].ret <=> (th[t].built # None /\ rag_chain' = th[t].built))]_vars

\* C4 (as claimed): whenever refresh_rag_data has returned False, whatever
\* step failed, rag_chain is None.
C4_FalseRefreshLeavesNoChain ==
    \A t \in Threads :
        (th[t].pc = "refresh_result" /\ ~th[t].ret) => rag_chain = None

\* C4 (amended): when refresh_rag_data returns False from its last line, after
\* setup_rag_chain ran (the snapshot could not be loaded or the build failed),
\* rag_chain is None at that moment; when generate_sample_ecommerce_data
\* raises, refresh_rag_data returns False and rag_chain is what it was.
C4_FalseRefreshDiscardsUnlessGenerationFailed ==
    [][\A t \in Threads :
          (th[t].pc # "refresh_result" /\ th'[t].pc = "refresh_result" /\ ~th'[t].ret)
              => IF th[t].pc = "refresh_ret"
                 THEN rag_chain' = None
                 ELSE th[t].pc = "gen_open" /\ rag_chain' = rag_chain]_vars

\* A refresh that found the session initialized has returned False and the
\* session holds no chain: the earlier chain was discarded.
C4_Witness ==
    \E t \in Threads :
        /\ th[t].pc = "refresh_result"
        /\ ~th[t].ret
        /\ ~th[t].initSaw
        /\ rag_chain = None

\* C5: a query request with a non-blank query that finds the session
\* uninitialized ends with an error that is not the error an empty query gets.
C5_NotInitializedDiffersFromInvalidQuery ==
    \A t \in Threads :
        (/\ th[t].pc = "done"
         /\ th[t].checked
         /\ Strip(th[t].query) # <<>>
         /\ th[t].seen = None)
            => (th[t].error # NoMsg /\ th[t].error # ErrInvalidQuery(variant))

\* C6: a query request whose text is empty or blank never reaches
\* rag_chain.invoke and ends with the invalid-query error, in both deployments.
C6_BlankQueryNeverInvokes ==
    \A t \in Threads :
        (th[t].method = "POST" /\ th[t].action = "query" /\ Strip(th[t].query) = <<>>)
            => /\ th[t].pc # "invoke"
               /\ ~th[t].invoked
               /\ th[t].pc = "done" => th[t].error = ErrInvalidQuery(variant)

\* C7: when rag_chain.invoke fails, the request goes on to render an error
\* that carries the cause, and the step changes neither rag_chain nor the
\* snapshot.
C7_FailedInvokeKeepsChain ==
    [][\A t \in Threads :
          (th[t].pc = "invoke" /\ th'[t].pc # "invoke" /\ th'[t].response = NoMsg)
              => /\ th'[t].pc = AfterAction(variant)
                 /\ th'[t].error.cause \in {"AttributeError", "CollaboratorError"}
                 /\ th'[t].error = ErrQuery(variant, th'[t].error.cause)
                 /\ rag_chain' = rag_chain
                 /\ file' = file]_vars

\* A query failed in the collaborators and the chain it used is still installed.
C7_Witness ==
    \E t \in Threads :
        /\ th[t].pc = "done"
        /\ th[t].invoked
        /\ th[t].error = ErrQuery(variant, "CollaboratorError")
        /\ th[t].used # None
        /\ rag_chain = th[t].used

BuildPCs == {"load", "load_read", "gen_open", "gen_dump", "setup_check", "setup_build"}

\* C9 (as claimed): after a failed initialization or refresh, the session
\* becomes initialized only by a step of a refresh request.
C9_OnlyRefreshRecovers ==
    [][(buildFailed /\ rag_chain = None /\ rag_chain' # None)
          => \E t \in Threads : th[t].action = "refresh" /\ th'[t] # th[t]]_vars

\* C9 (amended): a request starts a build only by its lazy initialization,
\* having found rag_chain None, or by its refresh action; and rag_chain goes
\* from None to a chain only by the assignment of initialize_rag or of
\* refresh_rag_data.  Nothing else retries, and a GET or query request that
\* finds the session initialized builds nothing.
C9_BuildOnlyWhenUninitializedOrRefresh ==
    [][/\ \A t \in Threads :
             (th[t].pc \notin BuildPCs /\ th'[t].pc \in BuildPCs)
                 => \/ th[t].pc = "check_init" /\ rag_chain = None
                    \/ th[t].pc = "dispatch" /\ th[t].action = "refresh"
       /\ (rag_chain = None /\ rag_chain' # None)
             => \E t \in Threads :
                   /\ th[t].pc \in {"init_assign", "refresh_assign"}
                   /\ th'[t].pc # th[t].pc]_vars

\* After a failed build a GET request alone in the server has initialized the
\* session by its lazy initialization.
C9_Witness ==
    \E t \in Threads :
        /\ buildFailed
        /\ th[t].method = "GET"
        /\ th[t].initSaw
        /\ th[t].pc = "dispatch"
        /\ rag_chain # None
        /\ rag_chain.req = th[t].req
        /\ \A u \in Threads \ {t} : th[u].pc = "idle"

\* C10: in the fixture deployment a complete snapshot changes only by the
\* write of a refresh.
C10_SnapshotChangedOnlyByRefresh ==
    [][(variant = "fixture" /\ file \in DataSets /\ file' # file)
          => \E t \in Threads :
                /\ th[t].pc = "gen_open"
                /\ th[t].gen_from = "refresh"
                /\ th'[t].pc = "gen_dump"]_vars


\* C11: every snapshot the fixture generation produces holds exactly 1000
\* products with the ids 1..1000, exactly 200 orders of 1 to 5 items each,
\* 1 to 5 reviews for every product (1000 to 5000 in all), only reviews and
\* order items that name a listed product, and total_* fields equal to the
\* lengths of the lists; while the lists are being filled each product so far
\* has its 1 to 5 reviews.
C11_GeneratedSnapshotShape ==
    /\ gen.pc # "off" =>
          /\ gen.ids_ok /\ gen.reviews_ok /\ gen.items_ok
          /\ gen.reviews >= gen.products
          /\ gen.reviews <= 5 * gen.products
    /\ gen.pc = "saved" =>
          /\ gen.dataset.products = 1000
          /\ gen.dataset.orders = 200
          /\ gen.dataset.reviews >= 1000
          /\ gen.dataset.reviews <= 5000
          /\ gen.dataset.total_products = gen.dataset.products
          /\ gen.dataset.total_reviews = gen.dataset.reviews
          /\ gen.dataset.total_orders = gen.dataset.orders

\* A snapshot was produced whose review count is strictly inside the range.
C11_Witness ==
    /\ gen.pc = "saved"
    /\ gen.dataset.reviews > 1000
    /\ gen.dataset.reviews < 5000


\* C12: every chunk made from a record, in the fixture and in the live
\* strategy, carries metadata with a 'source' entry naming the record's
\* category and an 'id' entry holding the id of the record it was made from.
C12_ChunkMetadataHasSourceAndId ==
    \A i \in 1..Len(pipe.docs) :
        LET doc == pipe.docs[i]
        IN /\ {"source", "id"} \subseteq DOMAIN doc.metadata
           /\ doc.metadata["source"] = doc.origin.category
           /\ doc.metadata["id"] = doc.origin.id


\* C13: the page rendered for a successful query carries, next to the answer
\* text, the (source, id) pairs of exactly the chunks retrieved for the query,
\* in retrieval order, and at most k of them (8 in the fixture deployment, 5
\* in the live one).
C13_AnswerCarriesProvenance ==
    (pipe.pc = "done" /\ pipe.page.response = pipe.result.answer
                      /\ pipe.result # NoResult) =>
        /\ "sources" \in DOMAIN pipe.page
        /\ Len(pipe.page["sources"]) = Len(pipe.result.context)
        /\ Len(pipe.page["sources"]) <= (IF variant = "fixture" THEN 8 ELSE 5)
        /\ \A i \in 1..Len(pipe.result.context) :
              /\ pipe.page["sources"][i].source = pipe.result.context[i].origin.category
              /\ pipe.page["sources"][i].id = pipe.result.context[i].origin.id


\* C14: a refresh request that found the session uninitialized, and so ran the
\* lazy initialization before its refresh, renders only the outcome of the
\* refresh: an error the initialization set earlier in the request is gone,
\* so the page carries the success text alone or the refresh error alone.
C14_RefreshAfterLazyInitShowsOnlyRefresh ==
    \A t \in Threads :
        (th[t].pc = "done" /\ th[t].action = "refresh" /\ th[t].initSaw) =>
            \/ th[t].response = OkRefresh(variant) /\ th[t].error = NoMsg
            \/ th[t].response = NoMsg /\ th[t].error = ErrRefresh(variant)

=============================================================================
